---- MODULE Spec2Model ----
(***************************************************************************)
(* Model of the KPI aggregation, narrative and answer pipeline of the      *)
(* Sustainability GRI agent (kpi_service.py, reporting.py, ai_agent.py,    *)
(* llm_engine.py, data_loader.py).                                         *)
(*                                                                         *)
(* Numbers: pandas works on float64.  A float is modelled as a record      *)
(* [k, n, d]: k = "num" is the exact rational n/d in lowest terms (d > 0), *)
(* k = "inf" / "ninf" are the two infinities and k = "nan" is NaN (n = 0,  *)
(* d = 1 for the three specials).  Rounding error of float64 is not        *)
(* modelled; division by zero, NaN propagation and pd.isna are.            *)
(***************************************************************************)
EXTENDS Integers, Sequences, FiniteSets, TLC

VARIABLES
    df,          \* the DataFrame of measurement rows handed to kpi_service
    yearly,      \* the DataFrame compute_yearly_totals returned
    narrative,   \* outcome of the last build_indicator_narrative call
    extracted,   \* the year and the outcome of the last extract_year_row call
    calls,       \* log of the functions called so far, in call order
    query,       \* the text handed to the query interpreter (a sequence of characters)
    years_requested, \* outcome of the last _detect_years call
    detected,    \* outcome of the last _detect_indicator call
    env_key,     \* whether GROQ_API_KEY is set in the environment of the process
    module,      \* import state of src.ai_agent in the page script
    agent,       \* whether the page script holds a SustainabilityAgent instance
    cache,       \* SustainabilityAgent._cache: indicator key -> DataFrame
    disk,        \* the yearly source files in DATA_DIR, in directory order
    loader_runs, \* per indicator key, whether load_indicator has run for this instance:
                 \* "never", "once", or "again" (more than once)
    out,         \* outcome of the last SustainabilityAgent.answer call
    loaded,      \* the key and the outcome of the last load_indicator call of a page
    reads,       \* the files that call read with pd.read_excel, in reading order
    report_years \* outcome of the last get_available_years_for_reports call

kpiVars == <<df, yearly, narrative, extracted>>

queryVars == <<query, years_requested, detected>>

agentVars == <<env_key, module, agent, cache, disk, loader_runs, out>>

loaderVars == <<loaded, reads, report_years>>

vars == <<df, yearly, narrative, extracted, calls, query, years_requested, detected,
          env_key, module, agent, cache, disk, loader_runs, out,
          loaded, reads, report_years>>

----------------------------------------------------------------------------
(* Bounds of the model *)

MaxRows == 3

Years == {2021, 2022, 2023}

Values == {-100, 0, 100, 120}

MaxPieces == 4

MaxFiles == 3

----------------------------------------------------------------------------
(* float64 *)

Abs(x) == IF x < 0 THEN -x ELSE x

RECURSIVE Gcd(_, _)
Gcd(a, b) == IF b = 0 THEN a ELSE Gcd(b, a % b)

NaN == [k |-> "nan", n |-> 0, d |-> 1]

PosInf == [k |-> "inf", n |-> 0, d |-> 1]

NegInf == [k |-> "ninf", n |-> 0, d |-> 1]

\* the float n/d, d # 0, in lowest terms with a positive denominator
Rat(n, d) ==
    LET g == Gcd(Abs(n), Abs(d))
        s == IF d < 0 THEN -1 ELSE 1
    IN  [k |-> "num", n |-> (s * n) \div g, d |-> (s * d) \div g]

Num(n) == Rat(n, 1)

IsNum(x) == x.k = "num"

\* pd.isna on a float: true of NaN only, an infinity is not "na"
isna(x) == x.k = "nan"

FNeg(x) ==
    CASE x.k = "num"  -> Rat(-x.n, x.d)
      [] x.k = "inf"  -> NegInf
      [] x.k = "ninf" -> PosInf
      [] OTHER        -> NaN

FAdd(x, y) ==
    CASE isna(x) \/ isna(y)        -> NaN
      [] IsNum(x) /\ IsNum(y)      -> Rat(x.n * y.d + y.n * x.d, x.d * y.d)
      [] IsNum(x)                  -> y
      [] IsNum(y)                  -> x
      [] x.k = y.k                 -> x
      [] OTHER                     -> NaN

FSub(x, y) == FAdd(x, FNeg(y))

FSign(x) ==
    CASE x.k = "inf"  -> 1
      [] x.k = "ninf" -> -1
      [] x.k = "num"  -> (IF x.n > 0 THEN 1 ELSE IF x.n < 0 THEN -1 ELSE 0)
      [] OTHER        -> 0

FMul(x, y) ==
    CASE isna(x) \/ isna(y)   -> NaN
      [] IsNum(x) /\ IsNum(y) -> Rat(x.n * y.n, x.d * y.d)
      [] FSign(x) * FSign(y) > 0 -> PosInf
      [] FSign(x) * FSign(y) < 0 -> NegInf
      [] OTHER                -> NaN

\* numpy float division: x/0 is +-inf for x # 0 and NaN for 0/0
FDiv(x, y) ==
    CASE isna(x) \/ isna(y)   -> NaN
      [] IsNum(x) /\ IsNum(y) ->
            IF y.n # 0 THEN Rat(x.n * y.d, x.d * y.n)
            ELSE IF x.n > 0 THEN PosInf
            ELSE IF x.n < 0 THEN NegInf
            ELSE NaN
      [] IsNum(y)             ->
            (IF FSign(x) * (IF y.n < 0 THEN -1 ELSE 1) > 0 THEN PosInf ELSE NegInf)
      [] IsNum(x)             -> Num(0)
      [] OTHER                -> NaN

\* abs() of a float
FAbs(x) ==
    CASE x.k = "num"  -> Rat(Abs(x.n), x.d)
      [] x.k = "ninf" -> PosInf
      [] OTHER        -> x

\* x > 0 on floats (false for NaN)
FGtZero(x) == FSign(x) > 0

----------------------------------------------------------------------------
(* DataFrames of measurement rows *)

MkRow(y, v) == [Year |-> y, Month |-> "Jan", Value |-> v, Unit |-> "kWh"]

RowSeqs(S, n) == UNION {[1..m -> S] : m \in 0..n}

KpiRows == {MkRow(y, v) : y \in Years, v \in Values}

RECURSIVE SortedSeq(_)
SortedSeq(S) ==
    IF S = {} THEN <<>>
    ELSE LET m == CHOOSE x \in S : \A y \in S : x <= y
         IN  <<m>> \o SortedSeq(S \ {m})

\* a grouping that forgets the group key: every row is summed into every group
RECURSIVE GroupSumAllRows(_, _)
GroupSumAllRows(rows, y) ==
    IF rows = <<>> THEN 0 ELSE Head(rows).Value + GroupSumAllRows(Tail(rows), y)

\* sum of the Value column over the rows of one group
RECURSIVE GroupSum(_, _)
GroupSum(rows, y) ==
    IF rows = <<>> THEN 0
    ELSE (IF Head(rows).Year = y THEN Head(rows).Value ELSE 0) + GroupSum(Tail(rows), y)

----------------------------------------------------------------------------
(* kpi_service.py *)

\* a difference taken against the first total instead of the preceding one
diffFromFirst(totals, i) == IF i = 1 THEN NaN ELSE FSub(totals[i], totals[1])

\* Series.diff(): NaN at position 0, else v[i] - v[i-1]
diff(totals, i) == IF i = 1 THEN NaN ELSE FSub(totals[i], totals[i - 1])

\* Series.pct_change(): NaN at position 0, else v[i] / v[i-1] - 1
pct_change(totals, i) ==
    IF i = 1 THEN NaN ELSE FSub(FDiv(totals[i], totals[i - 1]), Num(1))

\* the group keys of groupby("Year"), which sorts them; sort_values("Year")
GroupYears(rows) == SortedSeq({rows[i].Year : i \in DOMAIN rows})

\* .agg(total_value=("Value", "sum")), one total per group key
GroupTotals(rows, ys) == [i \in DOMAIN ys |-> Num(GroupSum(rows, ys[i]))]

\* the yearly table with its change_abs and change_pct columns
WithChanges(ys, totals) ==
    [i \in DOMAIN ys |->
        [Year        |-> ys[i],
         total_value |-> totals[i],
         change_abs  |-> diff(totals, i),
         change_pct  |-> FMul(pct_change(totals, i), Num(100))]]

YearlyOf(rows, ys) == WithChanges(ys, GroupTotals(rows, ys))

compute_yearly_totals(rows) == YearlyOf(rows, GroupYears(rows))

\* the previous row taken without the test idx > 0: iloc[-1] is the last row
ExtractAtWrap(yearly_df, pos) ==
    [raised  |-> FALSE,
     current |-> <<yearly_df[pos]>>,
     prev    |-> <<yearly_df[IF pos - 1 > 0 THEN pos - 1 ELSE Len(yearly_df)]>>]

\* kpi_service.extract_year_row: (current, prev) or ValueError; the index
\* label of a row of the yearly table is its position
ExtractAt(yearly_df, pos) ==
    [raised  |-> FALSE,
     current |-> <<yearly_df[pos]>>,
     prev    |-> IF pos - 1 > 0 THEN <<yearly_df[pos - 1]>> ELSE <<>>]

extract_year_row(yearly_df, year) ==
    IF \A i \in DOMAIN yearly_df : yearly_df[i].Year # year
    THEN [raised |-> TRUE, current |-> <<>>, prev |-> <<>>]
    ELSE ExtractAt(yearly_df, CHOOSE i \in DOMAIN yearly_df :
                        /\ yearly_df[i].Year = year
                        /\ \A j \in DOMAIN yearly_df : yearly_df[j].Year = year => i <= j)

NoExtract == [year |-> 0, res |-> [raised |-> FALSE, current |-> <<>>, prev |-> <<>>]]

----------------------------------------------------------------------------
(* config.py: the indicator registry *)

Indicators == {"energy", "water", "emissions", "waste"}

INDICATORS ==
    [key \in Indicators |->
        CASE key = "energy"    -> [kpi_name |-> "Energy Consumption", gri_code |-> "GRI 302", sheet_name |-> "Energy"]
          [] key = "water"     -> [kpi_name |-> "Water Withdrawal", gri_code |-> "GRI 303", sheet_name |-> "Water"]
          [] key = "emissions" -> [kpi_name |-> "GHG Emissions", gri_code |-> "GRI 305", sheet_name |-> "Emissions"]
          [] OTHER             -> [kpi_name |-> "Waste Generated", gri_code |-> "GRI 306", sheet_name |-> "Waste"]]

\* str.lower() on the registry's display names
NameLower(name) ==
    CASE name = "Energy Consumption" -> "energy consumption"
      [] name = "Water Withdrawal"   -> "water withdrawal"
      [] name = "GHG Emissions"      -> "ghg emissions"
      [] name = "Waste Generated"    -> "waste generated"
      [] OTHER                       -> name

----------------------------------------------------------------------------
(* reporting.py *)

\* the option type of Python (None): the empty sequence or a one-element one
None == <<>>

Some(x) == <<x>>

\* the integer nearest to n/d (d > 0), ties to the even one
RoundHalfEven(n, d) ==
    IF 2 * (n % d) < d THEN n \div d
    ELSE IF 2 * (n % d) > d THEN (n \div d) + 1
    ELSE IF (n \div d) % 2 = 0 THEN n \div d ELSE (n \div d) + 1

\* format(x, ",.1f"): the decimal with one digit after the point, as a number
\* of tenths; "inf", "-inf" and "nan" are printed as such
Fmt1(x) ==
    IF IsNum(x) THEN [k |-> "dec", tenths |-> RoundHalfEven(10 * x.n, x.d)]
    ELSE [k |-> x.k, tenths |-> 0]

NoNumber == [k |-> "none", tenths |-> 0]

\* the direction test with >= in place of >: zero change reads "increase"
_format_change_ge(change_abs, change_pct) ==
    IF change_abs = None \/ isna(change_abs[1])
    THEN [kind |-> "baseline", abs |-> NoNumber, pct |-> NoNumber]
    ELSE [kind |-> IF FSign(change_abs[1]) >= 0 THEN "increase" ELSE "reduction",
          abs  |-> Fmt1(FAbs(change_abs[1])),
          pct  |-> Fmt1(FAbs(change_pct[1]))]

_format_change(change_abs, change_pct) ==
    IF change_abs = None \/ isna(change_abs[1])
    THEN [kind |-> "baseline", abs |-> NoNumber, pct |-> NoNumber]
    ELSE [kind |-> IF FGtZero(change_abs[1]) THEN "increase" ELSE "reduction",
          abs  |-> Fmt1(FAbs(change_abs[1])),
          pct  |-> Fmt1(FAbs(change_pct[1]))]

NoNarrative ==
    [status |-> "none", year |-> 0, kpi_name |-> "", total |-> NoNumber, unit |-> "",
     change |-> [kind |-> "none", abs |-> NoNumber, pct |-> NoNumber], gri_code |-> ""]

\* the text template filled in for the row of the year
NarrativeText(meta, year, current, prev, unit) ==
    [status   |-> "ok",
     year     |-> year,
     kpi_name |-> NameLower(meta.kpi_name),
     total    |-> Fmt1(current.total_value),
     unit     |-> unit,
     change   |-> _format_change(IF prev = None THEN None ELSE Some(current.change_abs),
                                 IF prev = None THEN None ELSE Some(current.change_pct)),
     gri_code |-> meta.gri_code]

NarrativeOf(meta, year, ex, unit) ==
    IF ex.raised THEN [NoNarrative EXCEPT !.status = "ValueError", !.year = year]
    ELSE NarrativeText(meta, year, ex.current[1], ex.prev, unit)

build_indicator_narrative(indicator_key, rows, year, unit_label) ==
    NarrativeOf(INDICATORS[indicator_key], year,
                extract_year_row(compute_yearly_totals(rows), year),
                IF unit_label # "" THEN unit_label ELSE rows[1].Unit)

----------------------------------------------------------------------------
(* ai_agent.py: the query interpreter *)

Digits == {"0", "1", "2", "3", "4", "5", "6", "7", "8", "9"}

LowerLetters ==
    {"a", "b", "c", "d", "e", "f", "g", "h", "i", "j", "k", "l", "m",
     "n", "o", "p", "q", "r", "s", "t", "u", "v", "w", "x", "y", "z"}

UpperLetters ==
    {"A", "B", "C", "D", "E", "F", "G", "H", "I", "J", "K", "L", "M",
     "N", "O", "P", "Q", "R", "S", "T", "U", "V", "W", "X", "Y", "Z"}

DigitVal(c) ==
    CASE c = "0" -> 0 [] c = "1" -> 1 [] c = "2" -> 2 [] c = "3" -> 3 [] c = "4" -> 4
      [] c = "5" -> 5 [] c = "6" -> 6 [] c = "7" -> 7 [] c = "8" -> 8 [] OTHER -> 9

\* the class \w of the re module: letters, digits and the underscore
IsWordChar(c) == c \in Digits \cup LowerLetters \cup UpperLetters \cup {"_"}

\* \b between position p and p + 1 of text (p in 0..Len(text)): a word
\* character on exactly one side; outside the text counts as a non-word one
WordBoundary(text, p) ==
    LET left  == p >= 1 /\ IsWordChar(text[p])
        right == p + 1 <= Len(text) /\ IsWordChar(text[p + 1])
    IN  left # right

\* 20[0-9]{2} at positions p .. p + 3
YearAt(text, p) ==
    /\ p >= 1 /\ p + 3 <= Len(text)
    /\ text[p] = "2" /\ text[p + 1] = "0"
    /\ text[p + 2] \in Digits /\ text[p + 3] \in Digits

\* \b(20[0-9]{2})\b matches at position p
MatchAt(text, p) ==
    YearAt(text, p) /\ WordBoundary(text, p - 1) /\ WordBoundary(text, p + 3)

\* int() of the four matched digits
IntAt(text, p) ==
    1000 * DigitVal(text[p]) + 100 * DigitVal(text[p + 1])
        + 10 * DigitVal(text[p + 2]) + DigitVal(text[p + 3])

\* re.findall: leftmost matches, scanning on after the end of each match
RECURSIVE findall(_, _)
findall(text, p) ==
    IF p > Len(text) THEN <<>>
    ELSE IF MatchAt(text, p) THEN <<IntAt(text, p)>> \o findall(text, p + 4)
    ELSE findall(text, p + 1)

SetMax(S) == CHOOSE x \in S : \A y \in S : y <= x

SetMin(S) == CHOOSE x \in S : \A y \in S : x <= y

NoYears == [raised |-> FALSE, years |-> <<>>]

\* the fallback taking the earliest instead of the latest year
YearsOrEarliest(years_found, rows) ==
    IF years_found # <<>> THEN [raised |-> FALSE, years |-> years_found]
    ELSE IF rows = <<>> THEN [raised |-> TRUE, years |-> <<>>]
    ELSE [raised |-> FALSE, years |-> <<SetMin({rows[i].Year : i \in DOMAIN rows})>>]

\* the years found, or [int(df["Year"].max())]; int(NaN) raises on a
\* DataFrame without rows
YearsOrLatest(years_found, rows) ==
    IF years_found # <<>> THEN [raised |-> FALSE, years |-> years_found]
    ELSE IF rows = <<>> THEN [raised |-> TRUE, years |-> <<>>]
    ELSE [raised |-> FALSE, years |-> <<SetMax({rows[i].Year : i \in DOMAIN rows})>>]

\* SustainabilityAgent._detect_years
_detect_years(text, rows) == YearsOrLatest(findall(text, 1), rows)

----------------------------------------------------------------------------
(* data_loader.py *)

\* a yearly source file: the whitespace-separated tokens of its stem, and the
\* table of an indicator sheet (its column names and its rows)
MkFile(stem, columns, rows) == [stem |-> stem, columns |-> columns, rows |-> rows]

ExpectedCols == {"Year", "Month", "Indicator", "Value", "Unit", "Remarks"}

RECURSIVE DigitsValue(_)
DigitsValue(token) ==
    IF token = <<>> THEN 0
    ELSE 10 * DigitsValue(SubSeq(token, 1, Len(token) - 1)) + DigitVal(token[Len(token)])

IsDigit(c) == c \in Digits

\* the digits of an integer literal: digits, single underscores between them
ParseDigits(sign, body) ==
    IF /\ body # <<>>
       /\ body[1] \in Digits /\ body[Len(body)] \in Digits
       /\ \A i \in DOMAIN body : body[i] \in Digits \cup {"_"}
       /\ \A i \in 1..(Len(body) - 1) : ~(body[i] = "_" /\ body[i + 1] = "_")
    THEN [ok |-> TRUE, year |-> sign * DigitsValue(SelectSeq(body, IsDigit))]
    ELSE [ok |-> FALSE, year |-> 0]

\* int(year_str): an optional sign and a decimal number (ASCII digits), or
\* ValueError
ParseYear(token) ==
    IF token # <<>> /\ token[1] = "-" THEN ParseDigits(-1, Tail(token))
    ELSE IF token # <<>> /\ token[1] = "+" THEN ParseDigits(1, Tail(token))
    ELSE ParseDigits(1, token)

\* path.stem.split()[-1] parsed: IndexError on a stem without tokens
StemYear(stem) ==
    IF stem = <<>> THEN [ok |-> FALSE, year |-> 0] ELSE ParseYear(stem[Len(stem)])

\* the dict files[year] = path filled in directory order, a later file of the
\* same year replacing an earlier one, then sorted by year
FilesByYear(files, ys) ==
    [j \in DOMAIN ys |->
        files[SetMax({i \in DOMAIN files :
                        StemYear(files[i].stem) = [ok |-> TRUE, year |-> ys[j]]})]]

discover_files(files) ==
    FilesByYear(files,
        SortedSeq({StemYear(files[i].stem).year :
                      i \in {k \in DOMAIN files : StemYear(files[k].stem).ok}}))

\* the lexical rank of a month label (Month is compared as a string)
MonthRank(m) ==
    CASE m = "Apr" -> 1 [] m = "Aug" -> 2 [] m = "Dec" -> 3 [] m = "Feb" -> 4
      [] m = "Jan" -> 5 [] m = "Jul" -> 6 [] m = "Jun" -> 7 [] m = "Mar" -> 8
      [] m = "May" -> 9 [] m = "Nov" -> 10 [] m = "Oct" -> 11 [] OTHER -> 12

RowBefore(a, b) ==
    a.Year < b.Year \/ (a.Year = b.Year /\ MonthRank(a.Month) < MonthRank(b.Month))

\* sort_values(["Year", "Month"]): rows of equal key keep their order
RECURSIVE InsertRow(_, _)
InsertRow(sorted, r) ==
    IF sorted = <<>> THEN <<r>>
    ELSE IF RowBefore(r, Head(sorted)) THEN <<r>> \o sorted
    ELSE <<Head(sorted)>> \o InsertRow(Tail(sorted), r)

RECURSIVE SortRows(_)
SortRows(rows) ==
    IF rows = <<>> THEN <<>>
    ELSE InsertRow(SortRows(SubSeq(rows, 1, Len(rows) - 1)), rows[Len(rows)])

\* pd.concat(frames, ignore_index=True)
RECURSIVE ConcatRows(_)
ConcatRows(frames) ==
    IF frames = <<>> THEN <<>> ELSE Head(frames).rows \o ConcatRows(Tail(frames))

LoadFailed(msg) == [raised |-> TRUE, error |-> msg, rows |-> <<>>]

\* a loop that passes over a file lacking a column instead of raising
LoadFramesSkipBad(found) ==
    IF SelectSeq(found, LAMBDA f : ExpectedCols \ f.columns = {}) = <<>>
    THEN LoadFailed("No objects to concatenate")
    ELSE [raised |-> FALSE, error |-> "",
          rows |-> SortRows(ConcatRows(SelectSeq(found, LAMBDA f : ExpectedCols \ f.columns = {})))]

\* a concatenation that gives a table without rows when there is no frame
LoadFramesEmptyOk(found) ==
    IF \E j \in DOMAIN found : ExpectedCols \ found[j].columns # {}
    THEN LoadFailed("Missing columns")
    ELSE [raised |-> FALSE, error |-> "", rows |-> SortRows(ConcatRows(found))]

\* the loop over the discovered files, the concatenation and the sort
LoadFrames(found) ==
    IF \E j \in DOMAIN found : ExpectedCols \ found[j].columns # {}
    THEN LoadFailed("Missing columns")
    ELSE IF found = <<>> THEN LoadFailed("No objects to concatenate")
    ELSE [raised |-> FALSE, error |-> "", rows |-> SortRows(ConcatRows(found))]

load_indicator(indicator_key, files) ==
    IF indicator_key \notin DOMAIN INDICATORS THEN LoadFailed("Unknown indicator key")
    ELSE LoadFrames(discover_files(files))

\* the files the loop has read when it ends: all of them, or those up to the
\* first one lacking a column
ReadsOf(found) ==
    IF \A j \in DOMAIN found : ExpectedCols \ found[j].columns = {} THEN found
    ELSE SubSeq(found, 1, SetMin({j \in DOMAIN found : ExpectedCols \ found[j].columns # {}}))

\* the pd.read_excel calls of load_indicator(indicator_key)
load_indicator_reads(indicator_key, files) ==
    IF indicator_key \notin DOMAIN INDICATORS THEN <<>> ELSE ReadsOf(discover_files(files))

----------------------------------------------------------------------------
(* report_generator.py *)

\* the order of INDICATORS.keys()
KeyOrder == <<"energy", "water", "emissions", "waste">>

\* the loop over the keys: the error of the first load that raises, or the
\* sorted years of all the rows loaded
RECURSIVE YearsOfKeys(_, _, _)
YearsOfKeys(keys, files, years) ==
    IF keys = <<>> THEN [status |-> "returned", error |-> "", years |-> SortedSeq(years)]
    ELSE IF load_indicator(Head(keys), files).raised
    THEN [status |-> "raised", error |-> load_indicator(Head(keys), files).error, years |-> <<>>]
    ELSE YearsOfKeys(Tail(keys), files,
                     years \cup {r.Year : r \in {load_indicator(Head(keys), files).rows[i] :
                                    i \in DOMAIN load_indicator(Head(keys), files).rows}})

_get_available_years(files) == YearsOfKeys(KeyOrder, files, {})

get_available_years_for_reports(files) == _get_available_years(files)

----------------------------------------------------------------------------
(* llm_engine.py *)

\* module import: RuntimeError unless GROQ_API_KEY is set
llm_engine_import(key_set) == IF key_set THEN "imported" ELSE "RuntimeError"

Whitespace == {" ", "\t", "\n", "\r"}

RECURSIVE lstrip(_)
lstrip(s) == IF s # <<>> /\ Head(s) \in Whitespace THEN lstrip(Tail(s)) ELSE s

RECURSIVE rstrip(_)
rstrip(s) ==
    IF s # <<>> /\ s[Len(s)] \in Whitespace THEN rstrip(SubSeq(s, 1, Len(s) - 1)) ELSE s

\* str.strip()
strip(s) == rstrip(lstrip(s))

\* generate_sustainability_answer: the stripped content of the completion of
\* the remote model, or the error of the call; llm is what the remote side
\* does with this request (texts are sequences of characters)
generate_sustainability_answer(question, kpi_context, llm) ==
    [called |-> TRUE, raised |-> llm.raises,
     value  |-> IF llm.raises THEN llm.detail ELSE strip(llm.detail)]

NoGen == [called |-> FALSE, raised |-> FALSE, value |-> <<>>]

----------------------------------------------------------------------------
(* ai_agent.py: SustainabilityAgent *)

\* str.lower() of one character
Lower(c) ==
    CASE c = "A" -> "a" [] c = "B" -> "b" [] c = "C" -> "c" [] c = "D" -> "d" [] c = "E" -> "e"
      [] c = "F" -> "f" [] c = "G" -> "g" [] c = "H" -> "h" [] c = "I" -> "i" [] c = "J" -> "j"
      [] c = "K" -> "k" [] c = "L" -> "l" [] c = "M" -> "m" [] c = "N" -> "n" [] c = "O" -> "o"
      [] c = "P" -> "p" [] c = "Q" -> "q" [] c = "R" -> "r" [] c = "S" -> "s" [] c = "T" -> "t"
      [] c = "U" -> "u" [] c = "V" -> "v" [] c = "W" -> "w" [] c = "X" -> "x" [] c = "Y" -> "y"
      [] c = "Z" -> "z" [] OTHER -> c

lower(text) == [i \in DOMAIN text |-> Lower(text[i])]

\* word in q
Contains(q, word) ==
    \E p \in 0..(Len(q) - Len(word)) : \A i \in DOMAIN word : q[p + i] = word[i]

EnergyWords == {<<"e", "n", "e", "r", "g", "y">>, <<"e", "l", "e", "c", "t", "r", "i", "c", "i", "t", "y">>, <<"p", "o", "w", "e", "r">>, <<"3", "0", "2">>}

WaterWords == {<<"w", "a", "t", "e", "r">>, <<"3", "0", "3">>}

EmissionsWords == {<<"e", "m", "i", "s", "s", "i", "o", "n">>, <<"e", "m", "i", "s", "s", "i", "o", "n", "s">>, <<"c", "o", "2">>, <<"c", "a", "r", "b", "o", "n">>, <<"g", "h", "g">>, <<"3", "0", "5">>}

WasteWords == {<<"w", "a", "s", "t", "e">>, <<"3", "0", "6">>}

NoDetection == [raised |-> FALSE, key |-> ""]

\* the tests for water and energy in the other order
_detect_indicator_water_first(text) ==
    LET q == lower(text)
    IN  IF \E w \in WaterWords : Contains(q, w) THEN [raised |-> FALSE, key |-> "water"]
        ELSE IF \E w \in EnergyWords : Contains(q, w) THEN [raised |-> FALSE, key |-> "energy"]
        ELSE IF \E w \in EmissionsWords : Contains(q, w) THEN [raised |-> FALSE, key |-> "emissions"]
        ELSE IF \E w \in WasteWords : Contains(q, w) THEN [raised |-> FALSE, key |-> "waste"]
        ELSE [raised |-> TRUE, key |-> ""]

_detect_indicator(text) ==
    LET q == lower(text)
    IN  IF \E w \in EnergyWords : Contains(q, w) THEN [raised |-> FALSE, key |-> "energy"]
        ELSE IF \E w \in WaterWords : Contains(q, w) THEN [raised |-> FALSE, key |-> "water"]
        ELSE IF \E w \in EmissionsWords : Contains(q, w) THEN [raised |-> FALSE, key |-> "emissions"]
        ELSE IF \E w \in WasteWords : Contains(q, w) THEN [raised |-> FALSE, key |-> "waste"]
        ELSE [raised |-> TRUE, key |-> ""]

\* the loader's result, stored in the cache unless the load raised
StoreLoaded(self_cache, indicator_key, r) ==
    [raised |-> r.raised, error |-> r.error, rows |-> r.rows, loaded |-> TRUE,
     cache  |-> IF r.raised THEN self_cache ELSE (indicator_key :> r.rows) @@ self_cache]

\* a _get_data without the membership test: every call runs the loader
_get_data_reload(self_cache, files, indicator_key) ==
    StoreLoaded(self_cache, indicator_key, load_indicator(indicator_key, files))

\* _get_data: the cached DataFrame, or the loader's result stored in the cache
_get_data(self_cache, files, indicator_key) ==
    IF indicator_key \in DOMAIN self_cache
    THEN [raised |-> FALSE, error |-> "", rows |-> self_cache[indicator_key],
          loaded |-> FALSE, cache |-> self_cache]
    ELSE StoreLoaded(self_cache, indicator_key, load_indicator(indicator_key, files))

RECURSIVE SelectSeq2(_, _)
SelectSeq2(seq, S) ==
    IF seq = <<>> THEN <<>>
    ELSE (IF Head(seq) \in S THEN <<Head(seq)>> ELSE <<>>) \o SelectSeq2(Tail(seq), S)

\* None if pd.isna(x) else float(x)
NoneIfNa(x) == IF isna(x) THEN None ELSE Some(x)

KpiOfRow(row, unit) ==
    [year        |-> row.Year,
     total_value |-> row.total_value,
     change_abs  |-> NoneIfNa(row.change_abs),
     change_pct  |-> NoneIfNa(row.change_pct),
     unit        |-> unit]

\* yearly[yearly["Year"] == year].iloc[0] made into a KPI record
kpi_record(yearly_df, year, unit) ==
    KpiOfRow(yearly_df[CHOOSE i \in DOMAIN yearly_df : yearly_df[i].Year = year], unit)

\* the lines of the text of an answer
Blank == [t |-> "blank"]

Notice == [t |-> "llm_failed_notice"]

\* "n/a" or the formatted number
FmtOrNa(x) == IF x = None THEN [k |-> "n/a", tenths |-> 0] ELSE Fmt1(x[1])

KpiLine(rec) ==
    [t |-> "kpi", year |-> rec.year, total |-> Fmt1(rec.total_value), unit |-> rec.unit,
     change_abs |-> FmtOrNa(rec.change_abs), change_pct |-> FmtOrNa(rec.change_pct)]

\* per KPI record: the summary line, the narrative of its year, an empty line
RECURSIVE YearLines(_, _)
YearLines(kpi_records, narratives) ==
    IF kpi_records = <<>> THEN <<>>
    ELSE <<KpiLine(Head(kpi_records)),
           [t |-> "narrative", body |-> narratives[Head(kpi_records).year]],
           Blank>> \o YearLines(Tail(kpi_records), narratives)

\* a + "\n\n" + b on texts held as sequences of lines
TwoNewlines(a, b) == a \o <<Blank>> \o b

\* the notice moved behind the KPI lines, next to the error details
fallback_notice_last(meta, unit, kpi_records, narratives, exc) ==
    TwoNewlines(<<[t |-> "indicator", kpi_name |-> meta.kpi_name, gri_code |-> meta.gri_code],
                  [t |-> "unit", unit |-> unit],
                  Blank>> \o YearLines(kpi_records, narratives),
                <<Notice, [t |-> "error_details", exc |-> exc]>>)

\* the text returned by the except branch
fallback(meta, unit, kpi_records, narratives, exc) ==
    TwoNewlines(
        TwoNewlines(<<Notice>>,
            <<[t |-> "indicator", kpi_name |-> meta.kpi_name, gri_code |-> meta.gri_code],
              [t |-> "unit", unit |-> unit],
              Blank>> \o YearLines(kpi_records, narratives)),
        <<[t |-> "error_details", exc |-> exc]>>)

NoContext ==
    [indicator_key |-> "", unit |-> "", years |-> <<>>, kpis |-> <<>>, base_narratives |-> <<>>]

NoData(self_cache) ==
    [raised |-> FALSE, error |-> "", rows |-> <<>>, loaded |-> FALSE, cache |-> self_cache]

\* the calls answer has made when it is past _get_data, past the year
\* detection, and past the text generation
LogLoad(gd) ==
    <<"_detect_indicator", "_get_data">> \o (IF gd.loaded THEN <<"load_indicator">> ELSE <<>>)

LogYears(gd) == LogLoad(gd) \o <<"compute_yearly_totals", "_detect_years">>

LogLlm(gd) == LogYears(gd) \o <<"generate_sustainability_answer">>

\* answer ends by raising / by returning; the locals it had are kept with it
Raise(error, detail, key, gd, yrly, req, log) ==
    [status |-> "raised", error |-> error, detail |-> detail, text |-> <<>>,
     indicator_key |-> key, cache |-> gd.cache, loaded |-> gd.loaded, df |-> gd.rows,
     yearly |-> yrly, years_requested |-> req, kpi_context |-> NoContext, gen |-> NoGen,
     calls |-> log]

Return(text, key, gd, yrly, req, kpi_context, gen) ==
    [status |-> "returned", error |-> "", detail |-> <<>>, text |-> text,
     indicator_key |-> key, cache |-> gd.cache, loaded |-> gd.loaded, df |-> gd.rows,
     yearly |-> yrly, years_requested |-> req, kpi_context |-> kpi_context, gen |-> gen,
     calls |-> LogLlm(gd)]

\* a try without the except: the error of the call reaches the caller
AnswerLlmPropagate(key, gd, yrly, req, kpi_context, gen) ==
    IF ~gen.raised
    THEN Return(<<[t |-> "llm", body |-> gen.value]>>, key, gd, yrly, req, kpi_context, gen)
    ELSE [Raise("GenerationError", <<>>, key, gd, yrly, req, LogLlm(gd)) EXCEPT !.gen = gen]

\* 5) the try / except around generate_sustainability_answer
AnswerLlm(key, gd, yrly, req, kpi_context, gen) ==
    IF ~gen.raised
    THEN Return(<<[t |-> "llm", body |-> gen.value]>>, key, gd, yrly, req, kpi_context, gen)
    ELSE Return(fallback(INDICATORS[key], kpi_context.unit, kpi_context.kpis,
                         kpi_context.base_narratives, gen.value),
                key, gd, yrly, req, kpi_context, gen)

AnswerGenerate(text, llm, key, gd, yrly, req, kpi_context) ==
    AnswerLlm(key, gd, yrly, req, kpi_context,
              generate_sustainability_answer(text, kpi_context, llm))

\* 4) the KPI context of the valid years
KpiContext(key, rows, yrly, years_valid, unit) ==
    [indicator_key   |-> key,
     unit            |-> unit,
     years           |-> years_valid,
     kpis            |-> [i \in DOMAIN years_valid |-> kpi_record(yrly, years_valid[i], unit)],
     base_narratives |-> [y \in {years_valid[i] : i \in DOMAIN years_valid} |->
                             build_indicator_narrative(key, rows, y, unit)]]

\* a check of years_valid that degrades to the fallback text instead of raising
AnswerYearsSwallow(text, llm, key, gd, yrly, req, years_available, years_valid) ==
    IF years_valid = <<>>
    THEN Return(fallback(INDICATORS[key], "", <<>>, <<>>, <<"n", "o", " ", "d", "a", "t", "a">>),
                key, gd, yrly, req, NoContext, NoGen)
    ELSE AnswerGenerate(text, llm, key, gd, yrly, req,
                        KpiContext(key, gd.rows, yrly, years_valid, gd.rows[1].Unit))

\* the check of years_valid
AnswerYears(text, llm, key, gd, yrly, req, years_available, years_valid) ==
    IF years_valid = <<>>
    THEN Raise("NoDataForYear", years_available, key, gd, yrly, req, LogYears(gd))
    ELSE AnswerGenerate(text, llm, key, gd, yrly, req,
                        KpiContext(key, gd.rows, yrly, years_valid, gd.rows[1].Unit))

\* 3) the years of the query, filtered against the years of the totals
AnswerDetectYears(text, llm, key, gd, yrly, req) ==
    IF req.raised THEN Raise("NaNToInteger", <<>>, key, gd, yrly, req, LogYears(gd))
    ELSE AnswerYears(text, llm, key, gd, yrly, req,
                     [i \in DOMAIN yrly |-> yrly[i].Year],
                     SelectSeq2(req.years, {yrly[i].Year : i \in DOMAIN yrly}))

\* 2) the data of the indicator and its yearly totals
AnswerLoaded(text, llm, key, gd) ==
    IF gd.raised THEN Raise(gd.error, <<>>, key, gd, <<>>, NoYears, LogLoad(gd))
    ELSE AnswerDetectYears(text, llm, key, gd,
                           compute_yearly_totals(gd.rows), _detect_years(text, gd.rows))

\* 1) the indicator of the query
AnswerDetected(self_cache, files, text, llm, det) ==
    IF det.raised
    THEN Raise("IndicatorNotDetected", <<>>, "", NoData(self_cache), <<>>, NoYears,
               <<"_detect_indicator">>)
    ELSE AnswerLoaded(text, llm, det.key, _get_data(self_cache, files, det.key))

\* SustainabilityAgent.answer on an instance whose _cache is self_cache, with
\* the files of DATA_DIR as they are at the call
answer(self_cache, files, text, llm) ==
    AnswerDetected(self_cache, files, text, llm, _detect_indicator(text))

----------------------------------------------------------------------------
(* The page script and its agent: 01_Chat_Agent.py *)

AgentRow(y, m, v) == [Year |-> y, Month |-> m, Value |-> v, Unit |-> "kWh"]

Stem2022 == <<<<"D", "a", "t", "a">>, <<"2", "0", "2", "2">>>>

Stem2023 == <<<<"D", "a", "t", "a">>, <<"2", "0", "2", "3">>>>

StemFinal == <<<<"D", "a", "t", "a">>, <<"f", "i", "n", "a", "l">>>>

File2022 ==
    MkFile(Stem2022, ExpectedCols, <<AgentRow(2022, "Jan", 60), AgentRow(2022, "Feb", 40)>>)

File2022Zero == MkFile(Stem2022, ExpectedCols, <<AgentRow(2022, "Jan", 0)>>)

File2023 == MkFile(Stem2023, ExpectedCols, <<AgentRow(2023, "Jan", 120)>>)

File2023NoUnit == MkFile(Stem2023, ExpectedCols \ {"Unit"}, <<>>)

FileFinal == MkFile(StemFinal, ExpectedCols, <<AgentRow(2021, "Jan", 100)>>)

\* the directory listings the files are drawn from: no file; two good years
\* given latest first; a first year with total zero; a file lacking a column;
\* a file without a year in its name beside a good one, and alone
Disks ==
    {<<>>,
     <<FileFinal>>,
     <<File2023, File2022>>,
     <<File2022Zero, File2023>>,
     <<File2022, File2023NoUnit>>,
     <<FileFinal, File2023>>}

Queries ==
    {<<"e", "n", "e", "r", "g", "y", " ", "2", "0", "2", "3">>,
     <<"P", "o", "w", "e", "r", " ", "u", "s", "e">>,
     <<"C", "O", "2", " ", "2", "0", "2", "3", " ", "2", "0", "2", "2">>,
     <<"s", "p", "e", "n", "d", " ", "2", "0", "2", "3">>,
     <<"e", "n", "e", "r", "g", "y", " ", "2", "0", "1", "9">>,
     <<"e", "n", "e", "r", "g", "y", " ", "i", "n", "2", "0", "2", "2">>}

\* what the remote model does with a request: a completion whose content has
\* white space around it, or an error with its message
LlmBehaviours ==
    {[raises |-> FALSE, detail |-> <<" ", "U", "p", " ", "2", "0", "%", ".", "\n">>],
     [raises |-> TRUE, detail |-> <<"t", "i", "m", "e", "d", " ", "o", "u", "t">>]}

NoOut ==
    [status |-> "none", error |-> "", detail |-> <<>>, text |-> <<>>,
     indicator_key |-> "", kpi_context |-> NoContext, gen |-> NoGen]

NoRuns == [k \in Indicators |-> "never"]

NoLoad == [key |-> "", res |-> [raised |-> FALSE, error |-> "", rows |-> <<>>]]

NoReport == [status |-> "none", error |-> "", years |-> <<>>]

LoaderUnused ==
    /\ loaded = NoLoad
    /\ reads = <<>>
    /\ report_years = NoReport

AgentUnused ==
    /\ env_key = TRUE
    /\ module = "unimported"
    /\ agent = "none"
    /\ cache = <<>>
    /\ disk = <<>>
    /\ loader_runs = NoRuns
    /\ out = NoOut

Init ==
    /\ env_key \in BOOLEAN
    /\ module = "unimported"
    /\ agent = "none"
    /\ cache = <<>>
    /\ disk \in Disks
    /\ loader_runs = NoRuns
    /\ out = NoOut
    /\ df = <<>>
    /\ yearly = <<>>
    /\ narrative = NoNarrative
    /\ extracted = NoExtract
    /\ LoaderUnused
    /\ calls = <<>>
    /\ query = <<>>
    /\ years_requested = NoYears
    /\ detected = NoDetection

\* from src.ai_agent import SustainabilityAgent, which imports llm_engine
ImportAgentModule ==
    /\ module = "unimported"
    /\ module' = llm_engine_import(env_key)
    /\ UNCHANGED <<kpiVars, calls, queryVars, env_key, agent, cache, disk, loader_runs, out, loaderVars>>

\* a run of the page script: agent = SustainabilityAgent(), a new instance
\* with an empty cache, and no answer given yet
CreateAgent ==
    /\ module = "imported"
    /\ agent' = "created"
    /\ cache' = <<>>
    /\ loader_runs' = NoRuns
    /\ out' = NoOut
    /\ df' = <<>>
    /\ yearly' = <<>>
    /\ calls' = <<>>
    /\ query' = <<>>
    /\ years_requested' = NoYears
    /\ detected' = NoDetection
    /\ loaded' = NoLoad
    /\ reads' = <<>>
    /\ report_years' = NoReport
    /\ UNCHANGED <<narrative, extracted, env_key, module, disk>>

\* agent.answer(query)
Answer ==
    /\ agent = "created"
    /\ \E text \in Queries, llm \in LlmBehaviours :
        \E r \in {answer(cache, disk, text, llm)} :
              /\ query' = text
              /\ detected' = [raised |-> r.indicator_key = "", key |-> r.indicator_key]
              /\ cache' = r.cache
              /\ loader_runs' =
                    IF r.loaded
                    THEN [loader_runs EXCEPT
                            ![r.indicator_key] = IF @ = "never" THEN "once" ELSE "again"]
                    ELSE loader_runs
              /\ df' = r.df
              /\ yearly' = r.yearly
              /\ years_requested' = r.years_requested
              /\ calls' = r.calls
              /\ out' = [status |-> r.status, error |-> r.error, detail |-> r.detail,
                         text |-> r.text, indicator_key |-> r.indicator_key,
                         kpi_context |-> r.kpi_context, gen |-> r.gen]
    /\ UNCHANGED <<narrative, extracted, env_key, module, agent, disk, loaderVars>>

\* the yearly files are replaced, added or removed outside the program
WriteFiles ==
    /\ \E d \in Disks : d # disk /\ disk' = d
    /\ UNCHANGED <<kpiVars, calls, queryVars, env_key, module, agent, cache, loader_runs, out, loaderVars>>

\* a run of the report page, 04_GRI_Report_PDF.py, up to its line
\* years = get_available_years_for_reports(); the chat page's script, and its
\* agent with it, is no longer running
RunReportPage ==
    /\ report_years' = get_available_years_for_reports(disk)
    /\ calls' = <<"get_available_years_for_reports">>
    /\ agent' = "none"
    /\ cache' = <<>>
    /\ loader_runs' = NoRuns
    /\ out' = NoOut
    /\ df' = <<>>
    /\ yearly' = <<>>
    /\ query' = <<>>
    /\ years_requested' = NoYears
    /\ detected' = NoDetection
    /\ UNCHANGED <<narrative, extracted, env_key, module, disk, loaded, reads>>

Next == ImportAgentModule \/ CreateAgent \/ Answer \/ WriteFiles \/ RunReportPage

Spec == Init /\ [][Next]_vars

----------------------------------------------------------------------------
(* Pure-function specification of the year detection *)

Pieces ==
    {<<"2", "0", "2", "2">>,
     <<"2", "0", "2", "3">>,
     <<"1", "9">>,
     <<" ">>,
     <<"x">>,
     <<"_">>,
     <<"2">>,
     <<"0">>}

RECURSIVE Flatten(_)
Flatten(ps) == IF ps = <<>> THEN <<>> ELSE Head(ps) \o Flatten(Tail(ps))

Texts == {Flatten(ps) : ps \in RowSeqs(Pieces, MaxPieces)}

AvailableRows ==
    {<<MkRow(2021, 100), MkRow(2023, 120), MkRow(2022, 0)>>, <<MkRow(2021, 100)>>}

InitQuery ==
    /\ query \in Texts
    /\ df \in AvailableRows
    /\ yearly = <<>>
    /\ narrative = NoNarrative
    /\ extracted = NoExtract
    /\ LoaderUnused
    /\ calls = <<>>
    /\ years_requested = NoYears
    /\ detected = NoDetection
    /\ AgentUnused

DetectYears ==
    /\ calls = <<>>
    /\ years_requested' = _detect_years(query, df)
    /\ calls' = <<"_detect_years">>
    /\ UNCHANGED <<kpiVars, query, detected, agentVars, loaderVars>>

NextQuery == DetectYears

SpecQuery == InitQuery /\ [][NextQuery]_vars

----------------------------------------------------------------------------
(* Pure-function specification of the indicator detection *)

IndicatorPieces ==
    {<<"P", "o", "w", "e", "r">>,
     <<"w", "a", "t", "e", "r">>,
     <<"C", "O", "2">>,
     <<"W", "a", "s", "t", "e">>,
     <<"3", "0">>,
     <<"2">>,
     <<"6">>,
     <<" ">>,
     <<"x">>}

IndicatorTexts == {Flatten(ps) : ps \in RowSeqs(IndicatorPieces, MaxPieces)}

InitIndicator ==
    /\ query \in IndicatorTexts
    /\ df = <<>>
    /\ yearly = <<>>
    /\ narrative = NoNarrative
    /\ extracted = NoExtract
    /\ LoaderUnused
    /\ calls = <<>>
    /\ years_requested = NoYears
    /\ detected = NoDetection
    /\ AgentUnused

DetectIndicator ==
    /\ calls = <<>>
    /\ detected' = _detect_indicator(query)
    /\ calls' = <<"_detect_indicator">>
    /\ UNCHANGED <<kpiVars, query, years_requested, agentVars, loaderVars>>

NextIndicator == DetectIndicator

SpecIndicator == InitIndicator /\ [][NextIndicator]_vars

----------------------------------------------------------------------------
(* Pure-function specification of data_loader *)

UnitRow(y, m, v, u) == [Year |-> y, Month |-> m, Value |-> v, Unit |-> u]

\* files of distinct names: two good years; a second file named for 2023, in
\* another unit; a year whose rows carry two units; a file of 2022 lacking
\* the Unit column; a file without a year in its name, lacking a column too;
\* a year written with a sign
FileNew2023MWh ==
    MkFile(<<<<"N", "e", "w">>, <<"2", "0", "2", "3">>>>, ExpectedCols \cup {"Source"},
           <<UnitRow(2023, "Jan", 5, "MWh")>>)

File2021Mixed ==
    MkFile(<<<<"D", "a", "t", "a">>, <<"2", "0", "2", "1">>>>, ExpectedCols,
           <<UnitRow(2021, "Jan", 70, "kWh"), UnitRow(2021, "Feb", 3, "MWh")>>)

FileOld2022NoUnit ==
    MkFile(<<<<"O", "l", "d">>, <<"2", "0", "2", "2">>>>, ExpectedCols \ {"Unit"}, <<>>)

FileFinalNoUnit == MkFile(StemFinal, ExpectedCols \ {"Unit"}, <<>>)

FileSigned ==
    MkFile(<<<<"D", "a", "t", "a">>, <<"+", "2", "0", "2", "0">>>>, ExpectedCols,
           <<UnitRow(2020, "Jan", 10, "kWh")>>)

LoaderFiles ==
    {File2022, File2023, FileNew2023MWh, File2021Mixed, FileOld2022NoUnit,
     FileFinalNoUnit, FileSigned}

\* the directory listings: up to MaxFiles files of distinct names, in any order
LoaderDisks ==
    {d \in RowSeqs(LoaderFiles, MaxFiles) : \A i, j \in DOMAIN d : d[i] = d[j] => i = j}

LoaderKeys == Indicators \cup {"fuel"}

InitLoader ==
    /\ disk \in LoaderDisks
    /\ env_key = TRUE
    /\ module = "unimported"
    /\ agent = "none"
    /\ cache = <<>>
    /\ loader_runs = NoRuns
    /\ out = NoOut
    /\ df = <<>>
    /\ yearly = <<>>
    /\ narrative = NoNarrative
    /\ extracted = NoExtract
    /\ calls = <<>>
    /\ query = <<>>
    /\ years_requested = NoYears
    /\ detected = NoDetection
    /\ LoaderUnused

\* df = load_indicator(indicator_key)
LoadIndicator ==
    /\ calls = <<>>
    /\ \E indicator_key \in LoaderKeys :
          /\ loaded' = [key |-> indicator_key, res |-> load_indicator(indicator_key, disk)]
          /\ reads' = load_indicator_reads(indicator_key, disk)
    /\ calls' = <<"load_indicator">>
    /\ UNCHANGED <<kpiVars, queryVars, agentVars, report_years>>

NextLoader == LoadIndicator

SpecLoader == InitLoader /\ [][NextLoader]_vars

----------------------------------------------------------------------------
(* Pure-function specification of kpi_service / reporting *)

InitKpi ==
    /\ df \in RowSeqs(KpiRows, MaxRows)
    /\ yearly = <<>>
    /\ narrative = NoNarrative
    /\ extracted = NoExtract
    /\ LoaderUnused
    /\ calls = <<>>
    /\ query = <<>>
    /\ years_requested = NoYears
    /\ detected = NoDetection
    /\ AgentUnused

ComputeYearlyTotals ==
    /\ calls = <<>>
    /\ yearly' = compute_yearly_totals(df)
    /\ calls' = <<"compute_yearly_totals">>
    /\ UNCHANGED <<df, narrative, extracted, queryVars, agentVars, loaderVars>>

BuildNarrative ==
    /\ calls = <<>>
    /\ \E key \in {"energy", "waste"}, y \in Years, unit_label \in {"", "MWh"} :
          narrative' = build_indicator_narrative(key, df, y, unit_label)
    /\ calls' = <<"build_indicator_narrative">>
    /\ UNCHANGED <<df, yearly, extracted, queryVars, agentVars, loaderVars>>

\* extract_year_row(compute_yearly_totals(df), year)
ExtractYearRow ==
    /\ calls = <<>>
    /\ \E year \in Years, t \in {compute_yearly_totals(df)} :
          /\ yearly' = t
          /\ extracted' = [year |-> year, res |-> extract_year_row(t, year)]
    /\ calls' = <<"compute_yearly_totals", "extract_year_row">>
    /\ UNCHANGED <<df, narrative, queryVars, agentVars, loaderVars>>

NextKpi == ComputeYearlyTotals \/ BuildNarrative \/ ExtractYearRow

SpecKpi == InitKpi /\ [][NextKpi]_vars

----------------------------------------------------------------------------
(* Properties of compute_yearly_totals *)

YearsOf(rows) == {rows[i].Year : i \in DOMAIN rows}

Range(f) == {f[i] : i \in DOMAIN f}

RECURSIVE SumValues(_, _)
SumValues(rows, I) ==
    IF I = {} THEN 0
    ELSE LET i == CHOOSE j \in I : TRUE
         IN  rows[i].Value + SumValues(rows, I \ {i})

TotalOfYear(rows, y) == SumValues(rows, {i \in DOMAIN rows : rows[i].Year = y})

Aggregated == calls = <<"compute_yearly_totals">> /\ df # <<>>

\* C1: for non-empty rows compute_yearly_totals returns one record per distinct
\* year of the rows, in ascending year order, and each record's total_value is
\* the sum of the Value of exactly the rows of that year.
C1_YearlyTotals ==
    Aggregated =>
        /\ Len(yearly) = Cardinality(YearsOf(df))
        /\ {yearly[i].Year : i \in DOMAIN yearly} = YearsOf(df)
        /\ \A i, j \in DOMAIN yearly : i < j => yearly[i].Year < yearly[j].Year
        /\ \A i \in DOMAIN yearly :
              yearly[i].total_value = Num(TotalOfYear(df, yearly[i].Year))

\* two years, one of them with more than one row, given out of year order
C1_Witness ==
    /\ Aggregated
    /\ Len(yearly) = 2
    /\ Len(df) = 3
    /\ df[1].Year > df[2].Year
    /\ yearly[2].total_value = Num(220)

\* C3: change_abs at position i > 0 is total_value[i] - total_value[i-1], the
\* record just before it in year order, consecutive year or not; at position 0
\* it is null.
C3_ChangeAbs ==
    Aggregated =>
        \A i \in DOMAIN yearly :
            IF i = 1 THEN isna(yearly[i].change_abs)
            ELSE /\ IsNum(yearly[i].change_abs)
                 /\ yearly[i].change_abs =
                        Num(TotalOfYear(df, yearly[i].Year) - TotalOfYear(df, yearly[i - 1].Year))

\* three years with different totals, and a gap year: 2021 -> 2023
C3_Witness ==
    /\ Aggregated
    /\ Len(yearly) = 3
    /\ yearly[3].change_abs = Num(20)
    /\ yearly[2].change_abs = Num(200)

C3_WitnessGap ==
    /\ Aggregated
    /\ Len(yearly) = 2
    /\ yearly[1].Year = 2021 /\ yearly[2].Year = 2023
    /\ yearly[2].change_abs = Num(-100)

\* the change_pct the claim asks for at position i of the yearly table of rows
ClaimedPct(rows, table, i) ==
    IF i = 1 \/ TotalOfYear(rows, table[IF i = 1 THEN 1 ELSE i - 1].Year) = 0
    THEN NaN
    ELSE Rat(100 * (TotalOfYear(rows, table[i].Year) - TotalOfYear(rows, table[i - 1].Year)),
             TotalOfYear(rows, table[i - 1].Year))

\* C2 (as stated): change_pct is null (no number, no infinity) when the record
\* is the earliest year or the previous total is zero, and otherwise it is
\* change_abs / previous total * 100; the same for the change_pct of the KPI
\* records answer builds, where null is None.
C2_ChangePctNullOrRatio ==
    /\ \A i \in DOMAIN yearly : yearly[i].change_pct = ClaimedPct(df, yearly, i)
    /\ \A r \in DOMAIN out.kpi_context.kpis :
          LET rec == out.kpi_context.kpis[r]
              i   == CHOOSE j \in DOMAIN yearly : yearly[j].Year = rec.year
          IN  rec.change_pct = NoneIfNa(ClaimedPct(df, yearly, i))

----------------------------------------------------------------------------
(* Properties of build_indicator_narrative *)

Narrated == calls = <<"build_indicator_narrative">> /\ narrative.status = "ok"

EarliestYear(rows) == CHOOSE y \in YearsOf(rows) : \A z \in YearsOf(rows) : y <= z

PreviousYear(rows, y) ==
    CHOOSE p \in YearsOf(rows) : p < y /\ \A z \in YearsOf(rows) : z < y => z <= p

ChangeOfYear(rows, y) == TotalOfYear(rows, y) - TotalOfYear(rows, PreviousYear(rows, y))

\* C9: the change clause is the baseline sentence without numbers for the
\* earliest year; with a previous year it says "increase" when change_abs > 0
\* and "reduction" when change_abs <= 0 (zero included), and the magnitudes
\* shown are the absolute values of change_abs and change_pct.
C9_ChangeClause ==
    Narrated =>
        LET y == narrative.year
            c == narrative.change
        IN  IF y = EarliestYear(df)
            THEN c.kind = "baseline" /\ c.abs = NoNumber /\ c.pct = NoNumber
            ELSE /\ c.kind = IF ChangeOfYear(df, y) > 0 THEN "increase" ELSE "reduction"
                 /\ c.abs = [k |-> "dec", tenths |-> 10 * Abs(ChangeOfYear(df, y))]
                 /\ c.pct.k \in {"dec", "inf", "nan"}
                 /\ c.pct.tenths >= 0
                 /\ TotalOfYear(df, PreviousYear(df, y)) # 0 =>
                        c.pct = Fmt1(Rat(100 * Abs(ChangeOfYear(df, y)),
                                         Abs(TotalOfYear(df, PreviousYear(df, y)))))

\* a year after the baseline whose total equals the previous one: "reduction" of 0.0
C9_Witness ==
    /\ Narrated
    /\ narrative.year # EarliestYear(df)
    /\ ChangeOfYear(df, narrative.year) = 0
    /\ narrative.change.kind = "reduction"

C9_WitnessIncrease ==
    /\ Narrated
    /\ narrative.change.kind = "increase"
    /\ narrative.change.pct = [k |-> "dec", tenths |-> 200]

----------------------------------------------------------------------------
(* Properties of extract_year_row *)

Extracted == calls = <<"compute_yearly_totals", "extract_year_row">>

\* C12: on the output of compute_yearly_totals, extract_year_row raises
\* exactly when no record has the year; otherwise current is the record of
\* the year, and prev is the record just before it in year order, null
\* exactly when current is the first record.
C12_CurrentAndPrevious ==
    Extracted =>
        LET y == extracted.year
            r == extracted.res
        IN  IF y \notin YearsOf(df)
            THEN r.raised /\ r.current = <<>> /\ r.prev = <<>>
            ELSE /\ ~r.raised
                 /\ Len(r.current) = 1
                 /\ r.current[1].Year = y
                 /\ r.current[1].total_value = Num(TotalOfYear(df, y))
                 /\ r.current[1] \in Range(yearly)
                 /\ IF y = EarliestYear(df) THEN r.prev = None
                    ELSE /\ Len(r.prev) = 1
                         /\ r.prev[1].Year = PreviousYear(df, y)
                         /\ r.prev[1].total_value = Num(TotalOfYear(df, PreviousYear(df, y)))
                         /\ r.prev[1] \in Range(yearly)

\* the previous record of 2023 is the one of 2021 when 2022 has no rows
C12_Witness ==
    /\ Extracted
    /\ YearsOf(df) = {2021, 2023}
    /\ extracted.year = 2023
    /\ Len(extracted.res.prev) = 1
    /\ extracted.res.prev[1].Year = 2021

\* a single-year dataset: no previous record
C12_WitnessSingle ==
    /\ Extracted
    /\ Len(yearly) = 1
    /\ ~extracted.res.raised
    /\ extracted.res.prev = None

C12_WitnessRaised ==
    /\ Extracted
    /\ df # <<>>
    /\ extracted.res.raised

----------------------------------------------------------------------------
(* Properties of _detect_years *)

YearsDetected == calls = <<"_detect_years">>

\* the positions of 20dd, leftmost first and not overlapping, whatever stands
\* around them
RECURSIVE Occurrences(_, _)
Occurrences(text, p) ==
    IF p > Len(text) THEN <<>>
    ELSE IF YearAt(text, p) THEN <<IntAt(text, p)>> \o Occurrences(text, p + 4)
    ELSE Occurrences(text, p + 1)

\* C10 (as stated): every occurrence of 20dd in the text is returned, in order of
\* appearance, whatever characters stand directly before or after it; the
\* latest available year alone is returned exactly when there is no occurrence.
C10_AnyOccurrence ==
    YearsDetected =>
        /\ ~years_requested.raised
        /\ years_requested.years =
              IF Occurrences(query, 1) # <<>> THEN Occurrences(query, 1)
              ELSE <<SetMax(YearsOf(df))>>

\* the positions where 20dd stands with no word character (letter, digit or
\* underscore) directly before or after it
Delimited(text) ==
    {p \in 1..Len(text) :
        /\ YearAt(text, p)
        /\ (p > 1 => ~IsWordChar(text[p - 1]))
        /\ (p + 4 <= Len(text) => ~IsWordChar(text[p + 4]))}

\* C10 (amended): the years returned are the occurrences of 20dd that have no
\* word character directly before or after them, in order of appearance; the
\* one-element sequence of the latest available year is returned exactly when
\* there is no such occurrence; the result is never empty and holds years
\* that are not available too.
C10_DelimitedYears ==
    YearsDetected =>
        LET D   == SortedSeq(Delimited(query))
            res == years_requested.years
        IN  /\ ~years_requested.raised
            /\ res # <<>>
            /\ IF D # <<>>
               THEN res = [i \in DOMAIN D |-> IntAt(query, D[i])]
               ELSE res = <<SetMax(YearsOf(df))>>

\* two delimited years in request order, the first one not available
C10_Witness ==
    /\ YearsDetected
    /\ years_requested.years = <<2023, 2022>>
    /\ YearsOf(df) = {2021}

\* a year glued to a letter is not detected: the latest year is returned
C10_WitnessGlued ==
    /\ YearsDetected
    /\ Occurrences(query, 1) = <<2022>>
    /\ years_requested.years = <<2023>>

----------------------------------------------------------------------------
(* Properties of _detect_indicator *)

IndicatorDetected == calls = <<"_detect_indicator">>

\* the keyword table and the evaluation order of the contract
MatchOrder == <<"energy", "water", "emissions", "waste">>

KeywordTable ==
    [k \in {"energy", "water", "emissions", "waste"} |->
        CASE k = "energy" ->
                {<<"e", "n", "e", "r", "g", "y">>,
                 <<"e", "l", "e", "c", "t", "r", "i", "c", "i", "t", "y">>,
                 <<"p", "o", "w", "e", "r">>, <<"3", "0", "2">>}
          [] k = "water" -> {<<"w", "a", "t", "e", "r">>, <<"3", "0", "3">>}
          [] k = "emissions" ->
                {<<"e", "m", "i", "s", "s", "i", "o", "n">>,
                 <<"e", "m", "i", "s", "s", "i", "o", "n", "s">>,
                 <<"c", "o", "2">>, <<"c", "a", "r", "b", "o", "n">>,
                 <<"g", "h", "g">>, <<"3", "0", "5">>}
          [] OTHER -> {<<"w", "a", "s", "t", "e">>, <<"3", "0", "6">>}]

\* the keyword w stands somewhere in text, letters compared without case
Occurs(text, w) ==
    \E p \in 1..(Len(text) - Len(w) + 1) :
        \A i \in 1..Len(w) : Lower(text[p + i - 1]) = w[i]

\* the positions in MatchOrder of the indicators with a keyword in text
Matching(text) ==
    {i \in DOMAIN MatchOrder : \E w \in KeywordTable[MatchOrder[i]] : Occurs(text, w)}

\* C11: _detect_indicator returns the first indicator, in the order energy,
\* water, emissions, waste, one of whose keywords occurs in the text as a
\* substring, letters compared without case, also when later indicators match
\* too; it raises exactly when no keyword of any indicator occurs.
C11_FirstMatchWins ==
    IndicatorDetected =>
        IF Matching(query) = {} THEN detected.raised
        ELSE /\ ~detected.raised
             /\ detected.key = MatchOrder[SetMin(Matching(query))]

\* water and waste both match, a keyword is in capitals: water wins
C11_Witness ==
    /\ IndicatorDetected
    /\ Matching(query) = {2, 4}
    /\ query # lower(query)
    /\ detected = [raised |-> FALSE, key |-> "water"]

\* a text with a part of a keyword only
C11_WitnessNone ==
    /\ IndicatorDetected
    /\ detected.raised
    /\ Len(query) >= 3

----------------------------------------------------------------------------
(* Properties of load_indicator *)

Loaded == calls = <<"load_indicator">>

RequiredColumns == {"Year", "Month", "Indicator", "Value", "Unit", "Remarks"}

\* the last whitespace-separated token of the file's name is no year
Unparseable(file) == ~StemYear(file.stem).ok

\* the files of the directory without those whose name holds no year
RECURSIVE Parseable(_)
Parseable(files) ==
    IF files = <<>> THEN <<>>
    ELSE (IF Unparseable(Head(files)) THEN <<>> ELSE <<Head(files)>>) \o Parseable(Tail(files))

\* C13: load_indicator raises, returning no rows, for a key that is not in
\* the registry, and then no file has been read; it raises for a registered
\* key when a discovered file lacks one of the required columns; a file whose
\* name's last token is no year is not read, and the outcome is the one the
\* load has without that file.
C13_LoadErrorsAndSkips ==
    Loaded =>
        /\ loaded.key \notin Indicators =>
              /\ loaded.res.raised /\ loaded.res.error = "Unknown indicator key"
              /\ loaded.res.rows = <<>>
              /\ reads = <<>>
        /\ (/\ loaded.key \in Indicators
            /\ \E f \in Range(discover_files(disk)) : ~(RequiredColumns \subseteq f.columns)) =>
              /\ loaded.res.raised /\ loaded.res.error = "Missing columns"
              /\ loaded.res.rows = <<>>
        /\ \A i \in DOMAIN disk :
              Unparseable(disk[i]) => disk[i] \notin Range(reads)
        /\ loaded.res = load_indicator(loaded.key, Parseable(disk))
        /\ reads = load_indicator_reads(loaded.key, Parseable(disk))

\* a good load beside a file without a year in its name that lacks a column
C13_Witness ==
    /\ Loaded
    /\ FileFinalNoUnit \in Range(disk)
    /\ ~loaded.res.raised
    /\ Len(reads) = 2

\* a file lacking the Unit column is found after a good one was read
C13_WitnessMissing ==
    /\ Loaded
    /\ loaded.res.error = "Missing columns"
    /\ Len(reads) = 2

C13_WitnessUnknown ==
    /\ Loaded
    /\ loaded.key = "fuel"
    /\ Len(disk) = MaxFiles

\* C14 (as stated): the rows of a successful load carry one unit: the unit of
\* the first row, which answer reports, is the unit of every row.
C14_SingleUnit ==
    (Loaded /\ ~loaded.res.raised) =>
        \A i \in DOMAIN loaded.res.rows : loaded.res.rows[i].Unit = loaded.res.rows[1].Unit

\* no file of the directory has a year in its name (or there is no file)
NoFileDiscovered == \A i \in DOMAIN disk : Unparseable(disk[i])

\* a step of the report page: the files and the imported modules stay
ReportStep ==
    calls' = <<"get_available_years_for_reports">> /\ disk' = disk /\ module' = module

\* a step of answer for an indicator that has no cache entry
AnswerLoadStep ==
    /\ out' # NoOut /\ disk' = disk /\ module' = module
    /\ out'.indicator_key # "" /\ out'.indicator_key \notin DOMAIN cache

\* C15: when no yearly file is discovered, the load of a registered key
\* raises and returns no rows: get_available_years_for_reports raises
\* instead of returning an empty list, and answer raises with the loader's
\* error and stores no cache entry; an answer for a key whose earlier load
\* by this instance failed runs the loader again.
C15_NoFilesLoadFails ==
    [][/\ (ReportStep /\ NoFileDiscovered) =>
             report_years' = [status |-> "raised", error |-> "No objects to concatenate",
                              years |-> <<>>]
       /\ (AnswerLoadStep /\ NoFileDiscovered) =>
             /\ out'.status = "raised" /\ out'.error = "No objects to concatenate"
             /\ "load_indicator" \in Range(calls')
             /\ cache' = cache
             /\ out'.gen = NoGen
       /\ (AnswerLoadStep /\ loader_runs[out'.indicator_key] # "never") =>
             /\ "load_indicator" \in Range(calls')
             /\ loader_runs'[out'.indicator_key] = "again"
      ]_vars

\* second answer of one instance on a directory whose only file has no year
\* in its name: the loader has run again, nothing is stored
C15_Witness ==
    /\ disk = <<FileFinal>>
    /\ out.status = "raised" /\ out.error = "No objects to concatenate"
    /\ loader_runs[out.indicator_key] = "again"
    /\ cache = <<>>

\* the report page on an empty directory
C15_WitnessReport ==
    /\ disk = <<>>
    /\ calls = <<"get_available_years_for_reports">>
    /\ report_years.status = "raised"

----------------------------------------------------------------------------
(* Properties of SustainabilityAgent.answer *)

Answered == out.status # "none"

GenerateCalls == {i \in DOMAIN calls : calls[i] = "generate_sustainability_answer"}

\* the requested years that are among the years of the loaded rows
ValidYears == SelectSeq2(years_requested.years, YearsOf(df))

Detected == out.indicator_key # ""

DataLoaded == Detected /\ out.indicator_key \in DOMAIN cache

LoadFailedInAnswer ==
    Detected /\ out.indicator_key \notin DOMAIN cache /\ "load_indicator" \in Range(calls)

UpstreamSucceeded == DataLoaded /\ ~years_requested.raised /\ ValidYears # <<>>

\* C4: once detection, loading, aggregation and year validation succeeded,
\* answer returns: the fallback text with the error text in it when the text
\* generation raised, and the generated string unchanged when it returned.
C4_GenerationFailureContained ==
    Answered =>
        /\ UpstreamSucceeded => out.gen.called
        /\ out.gen.called =>
              /\ out.status = "returned"
              /\ IF out.gen.raised
                 THEN /\ out.text # <<>>
                      /\ out.text[Len(out.text)] = [t |-> "error_details", exc |-> out.gen.value]
                      /\ Notice \in Range(out.text)
                      /\ \E i \in DOMAIN out.text : out.text[i].t = "kpi"
                      /\ \A i \in DOMAIN out.text : out.text[i].t # "llm"
                 ELSE out.text = <<[t |-> "llm", body |-> out.gen.value]>>

C4_Witness ==
    /\ Answered /\ UpstreamSucceeded
    /\ out.gen.raised
    /\ out.status = "returned"
    /\ out.text[Len(out.text)].t = "error_details"

C4_WitnessVerbatim ==
    /\ Answered /\ out.gen.called /\ ~out.gen.raised
    /\ out.text = <<[t |-> "llm", body |-> <<"U", "p", " ", "2", "0", "%", ".">>]>>

\* C5 (as stated): without the API credential the page script still gets a
\* SustainabilityAgent: once it has run the import, the class is there to be
\* instantiated (and answer then returns the fallback text).
C5_AgentWithoutCredential ==
    (~env_key /\ module # "unimported") => module = "imported"

LoadErrors == {"Unknown indicator key", "Missing columns", "No objects to concatenate"}

\* C6: an error before the text generation propagates and is not made a
\* fallback answer: no indicator detected, a failed load, or no requested year
\* among the loaded years (the message listing the available years); then
\* the collaborator is not called.  It is called at most once per answer,
\* as the last call, after all these steps succeeded.
C6_UpstreamErrorsPropagate ==
    Answered =>
        /\ _detect_indicator(query).raised =>
              /\ out.status = "raised" /\ out.error = "IndicatorNotDetected"
              /\ calls = <<"_detect_indicator">>
        /\ LoadFailedInAnswer =>
              /\ out.status = "raised" /\ out.error \in LoadErrors
              /\ GenerateCalls = {}
        /\ (DataLoaded /\ (years_requested.raised \/ ValidYears = <<>>)) =>
              /\ out.status = "raised"
              /\ IF years_requested.raised THEN out.error = "NaNToInteger"
                 ELSE out.error = "NoDataForYear" /\ out.detail = SortedSeq(YearsOf(df))
              /\ GenerateCalls = {}
        /\ out.status = "raised" => (GenerateCalls = {} /\ ~out.gen.called /\ out.text = <<>>)
        /\ Cardinality(GenerateCalls) <= 1
        /\ GenerateCalls # {} =>
              /\ GenerateCalls = {Len(calls)}
              /\ {"_detect_indicator", "_get_data", "compute_yearly_totals", "_detect_years"}
                    \subseteq Range(SubSeq(calls, 1, Len(calls) - 1))
              /\ ~_detect_indicator(query).raised
              /\ UpstreamSucceeded

\* the year asked for is not among the loaded ones: the error lists them
C6_Witness ==
    /\ Answered
    /\ out.status = "raised" /\ out.error = "NoDataForYear"
    /\ out.detail = <<2022, 2023>>
    /\ years_requested.years = <<2019>>
    /\ GenerateCalls = {}

C6_WitnessLoad ==
    /\ Answered /\ LoadFailedInAnswer
    /\ out.error = "Missing columns"

\* C7 (as stated): for one instance the loader is run at most once per key.
C7_LoaderOncePerKey == \A k \in Indicators : loader_runs[k] # "again"

\* a step that ends the instance (a new one is made, or another page runs) /
\* a step of answer
NewInstanceStep == cache' = <<>> /\ out' = NoOut /\ loader_runs' = NoRuns

AnswerStep == out' # NoOut /\ disk' = disk /\ module' = module

\* C7 (amended): the rows of the first successful load of a key are stored
\* under it; from then on, for this instance, the entry is neither replaced
\* nor removed, the loader is not run again for the key, and every answer for
\* the key works on the stored rows whatever the files have become.  A load
\* that failed stores nothing, and the loader runs again at the next answer
\* for that key.
C7_StoredRowsKept ==
    [][/\ \A k \in DOMAIN cache :
             NewInstanceStep \/ (k \in DOMAIN cache' /\ cache'[k] = cache[k])
       /\ (AnswerStep /\ out'.indicator_key \in DOMAIN cache) =>
             /\ df' = cache[out'.indicator_key]
             /\ "load_indicator" \notin Range(calls')
             /\ loader_runs' = loader_runs
       /\ (AnswerStep /\ out'.indicator_key # "" /\ out'.indicator_key \notin DOMAIN cache) =>
             /\ "load_indicator" \in Range(calls')
             /\ IF load_indicator(out'.indicator_key, disk).raised
                THEN cache' = cache
                ELSE /\ DOMAIN cache' = DOMAIN cache \cup {out'.indicator_key}
                     /\ cache'[out'.indicator_key] = load_indicator(out'.indicator_key, disk).rows
      ]_vars

\* an answer served from the cache after the files were replaced
C7_Witness ==
    /\ Answered /\ DataLoaded
    /\ out.status = "returned"
    /\ "load_indicator" \notin Range(calls)
    /\ df = cache[out.indicator_key]
    /\ loader_runs[out.indicator_key] = "once"
    /\ load_indicator(out.indicator_key, disk) # [raised |-> FALSE, error |-> "", rows |-> df]

FallbackReturned == Answered /\ out.status = "returned" /\ out.gen.raised

LinesOfKind(kinds) == {i \in DOMAIN out.text : out.text[i].t \in kinds}

\* C8 (as stated): the header (indicator, code, unit) comes first, then per
\* valid year the KPI line and the narrative, and only after all of these the
\* notice that the language-model path failed, with the error text.
C8_NoticeAfterYears ==
    FallbackReturned =>
        /\ out.text[1].t = "indicator"
        /\ \A i \in LinesOfKind({"llm_failed_notice", "error_details"}),
              j \in LinesOfKind({"indicator", "unit", "kpi", "narrative"}) : j < i

\* C8 (amended): the fallback text starts with the notice that the
\* language-model path failed; then the header with indicator name, code and
\* unit; then, for each valid requested year in request order, the KPI line
\* followed by the narrative of that year; and last the error text.
C8_FallbackLayout ==
    FallbackReturned =>
        LET n    == Len(ValidYears)
            meta == INDICATORS[out.indicator_key]
            unit == df[1].Unit
        IN  /\ Len(out.text) = 3 * n + 7
            /\ out.text[1] = Notice
            /\ out.text[2] = Blank
            /\ out.text[3] = [t |-> "indicator", kpi_name |-> meta.kpi_name,
                              gri_code |-> meta.gri_code]
            /\ out.text[4] = [t |-> "unit", unit |-> unit]
            /\ out.text[5] = Blank
            /\ \A i \in 1..n :
                  /\ out.text[3 * i + 3].t = "kpi"
                  /\ out.text[3 * i + 3].year = ValidYears[i]
                  /\ out.text[3 * i + 3].total = Fmt1(Num(TotalOfYear(df, ValidYears[i])))
                  /\ out.text[3 * i + 4] =
                        [t |-> "narrative",
                         body |-> build_indicator_narrative(out.indicator_key, df,
                                                            ValidYears[i], unit)]
                  /\ out.text[3 * i + 5] = Blank
            /\ out.text[3 * n + 6] = Blank
            /\ out.text[3 * n + 7] = [t |-> "error_details", exc |-> out.gen.value]

\* two valid years asked for latest first
C8_Witness ==
    /\ FallbackReturned
    /\ ValidYears = <<2023, 2022>>
    /\ out.text[6].t = "kpi" /\ out.text[6].year = 2023
    /\ out.text[9].t = "kpi" /\ out.text[9].year = 2022
    /\ out.text[1] = Notice

====
